---------------------------- MODULE Spec2Model ----------------------------
(***************************************************************************)
(* Facebook Ad Library data pipeline: collect_raw_data (Retry Controller,  *)
(* Response Interceptor, scroll loop), transform_raw_data (Normalizer,     *)
(* Validator, Deduplicator) and generate_report, as driven by main.        *)
(***************************************************************************)
EXTENDS Integers, Sequences, FiniteSets, TLC

VARIABLES
    pc,               \* position of the main flow (main / collect_raw_data)
    calls,            \* collect_raw_data calls made in this process
    attempt,          \* loop variable of find_init_data_with_retries
    attempts,         \* history: outcome of every navigation attempt of this call
    delays,           \* history: time.sleep(RETRY_DELAY_SECONDS) calls of this call
    parsed_init_data, \* what find_init_data_with_retries returned
    init_appends,     \* history: extends of raw_ads_data by the initial data, this call
    raw_ads_data,     \* the module-level accumulator
    captured,         \* history: every group the Response Interceptor appended
    responses,        \* responses handled so far
    scrolls,          \* loop variable of scroll_until_loaded
    raw_file,         \* content of the raw JSON file
    group_steps,      \* per raw group, what parse_ad did to each ad
    parsed_ads,
    valid_records,
    invalid_records,
    df_cleaned_1,
    df_cleaned_2,
    df_cleaned_3      \* the persisted dataset

vars == <<pc, calls, attempt, attempts, delays, parsed_init_data, init_appends,
          raw_ads_data, captured, responses, scrolls, raw_file, group_steps,
          parsed_ads, valid_records, invalid_records,
          df_cleaned_1, df_cleaned_2, df_cleaned_3>>

collectVars == <<calls, attempt, attempts, delays, parsed_init_data, init_appends,
                 raw_ads_data, captured, responses, scrolls>>

transformVars == <<group_steps, parsed_ads, valid_records, invalid_records,
                   df_cleaned_1, df_cleaned_2, df_cleaned_3>>

-----------------------------------------------------------------------------
(* JSON / Python values, tagged by kind. *)

JMissing == [k |-> "missing"]
JNull == [k |-> "null"]
JInt(n) == [k |-> "int", v |-> n]
JStr(s) == [k |-> "str", v |-> s]
JBool(b) == [k |-> "bool", v |-> b]

None == [k |-> "None"]
JList(s) == [k |-> "list", v |-> s]

\* Python truthiness of a JSON value.
Truthy(j) ==
    CASE j.k = "int" -> j.v # 0
      [] j.k = "str" -> j.v # ""
      [] j.k = "bool" -> j.v
      [] OTHER -> FALSE

Last(s) == s[Len(s)]

IsPrefix(s, t) == Len(s) <= Len(t) /\ SubSeq(t, 1, Len(s)) = s

RECURSIVE Flatten(_)
Flatten(ss) == IF ss = <<>> THEN <<>> ELSE Head(ss) \o Flatten(Tail(ss))

SetMax(S) == CHOOSE m \in S : \A n \in S : n <= m

-----------------------------------------------------------------------------
(* Bounds of the model. *)

MaxCalls == 2       \* collect_raw_data calls in one process
MaxResponses == 2   \* network responses delivered to handle_response
MaxScrolls == 2     \* max_scrolls of scroll_until_loaded (1000 in the program)
MaxDedupAds == 3    \* ads of a raw dataset of the dedup family
MaxGroupAds == 3    \* ads of a raw dataset of the grouped-count family
MaxSingles == 1     \* ads of a raw dataset of the per-record families

(* Program constants. *)
MAX_RETRIES == 5

-----------------------------------------------------------------------------
(* Raw ads. *)

BaseAd ==
    [ad_archive_id |-> JStr("a1"), is_active |-> JBool(TRUE),
     start_date |-> JInt(1), end_date |-> JNull, total_active_time |-> JNull,
     collation_id |-> JNull, collation_count |-> JNull,
     display_format |-> JStr("IMAGE"), body_text |-> JStr("buy now"),
     cards |-> <<>>]

\* Texts on which langdetect finds no features and raises LangDetectException.
UndetectableTexts == {"12345"}

\* The groups the page delivers: one in its initial render, one in the
\* responses to scrolling.
GroupInitial == <<BaseAd>>
GroupScrolled == <<[BaseAd EXCEPT !.ad_archive_id = JStr("a2"),
                                 !.body_text = JStr("learn fast")]>>

-----------------------------------------------------------------------------
(* collect_raw_data.py *)

\* An edge of search_results_connection.edges: node is "missing", "notdict" or
\* "dict"; collated_results is <<>> when empty or absent.
Edge(node, results) == [node |-> node, collated_results |-> results]

EdgeLists(group) ==
    { <<>>,
      <<Edge("missing", <<>>), Edge("dict", group), Edge("notdict", <<>>),
        Edge("dict", <<>>)>> }

parse_response_data(edges) ==
    LET keep(e) == e.node = "dict" /\ e.collated_results # <<>>
        kept == SelectSeq(edges, keep)
    IN  [i \in 1..Len(kept) |-> kept[i].collated_results]

\* What find_init_data finds on the page: no marker object, a marker object
\* without search_results_connection, or one with edges.
PageContents ==
    { [marker |-> FALSE, has_edges |-> FALSE, edges |-> <<>>],
      [marker |-> TRUE, has_edges |-> FALSE, edges |-> <<>>] }
    \cup { [marker |-> TRUE, has_edges |-> TRUE, edges |-> e] :
             e \in EdgeLists(GroupInitial) }

\* get_parsed_init_data: the outcome and the value returned.
get_parsed_init_data(page) ==
    IF ~page.marker THEN [outcome |-> "not_found", data |-> None]
    ELSE IF ~page.has_edges THEN [outcome |-> "error", data |-> None]
    ELSE [outcome |-> "found", data |-> JList(parse_response_data(page.edges))]

\* The except clauses of find_init_data_with_retries: whether the loop continues.
RetryAllowedAlways(outcome, att) == att < MAX_RETRIES
RetryAllowed(outcome, att) == outcome = "not_found" /\ att < MAX_RETRIES

\* list.extend
ExtendReplace(acc, groups) == groups
Extend(acc, groups) == acc \o groups

\* The responses the page session delivers to handle_response.
Responses ==
    { [graphql |-> FALSE, json_ok |-> TRUE, marker |-> TRUE, has_edges |-> TRUE,
       edges |-> <<Edge("dict", GroupScrolled)>>],
      [graphql |-> TRUE, json_ok |-> FALSE, marker |-> FALSE, has_edges |-> FALSE,
       edges |-> <<>>],
      [graphql |-> TRUE, json_ok |-> TRUE, marker |-> FALSE, has_edges |-> FALSE,
       edges |-> <<>>],
      [graphql |-> TRUE, json_ok |-> TRUE, marker |-> TRUE, has_edges |-> FALSE,
       edges |-> <<>>] }
    \cup { [graphql |-> TRUE, json_ok |-> TRUE, marker |-> TRUE, has_edges |-> TRUE,
            edges |-> e] : e \in EdgeLists(GroupScrolled) }

\* What handle_response appends for a response (<<>> on every early return).
ResponseGroups(r) ==
    IF ~r.graphql THEN <<>>
    ELSE IF ~r.json_ok THEN <<>>
    ELSE IF ~r.marker THEN <<>>
    ELSE IF ~r.has_edges THEN <<>>
    ELSE parse_response_data(r.edges)

-----------------------------------------------------------------------------
(* transform_raw_data.py *)

DisplayFormat == {"VIDEO", "IMAGE", "DCO", "CAROUSEL"}

MediaMix == {"video-only", "image-only", "both", "none"}

MultiCard == {"DCO", "CAROUSEL"}

\* detect_media_mix: <<has_video, has_image>>.
detect_media_mix(ad, display_format) ==
    IF display_format = JStr("VIDEO") THEN <<TRUE, FALSE>>
    ELSE IF display_format = JStr("IMAGE") THEN <<FALSE, TRUE>>
    ELSE IF display_format.k = "str" /\ display_format.v \in MultiCard
    THEN << \E i \in 1..Len(ad.cards) : Truthy(ad.cards[i].video_hd_url),
            \E i \in 1..Len(ad.cards) : Truthy(ad.cards[i].original_image_url) >>
    ELSE <<FALSE, FALSE>>

get_media_mix(ad, display_format) ==
    LET m == detect_media_mix(ad, display_format)
    IN  IF m[1] /\ m[2] THEN "both"
        ELSE IF m[1] THEN "video-only"
        ELSE IF m[2] THEN "image-only"
        ELSE "none"

\* Lines 120-129 of parse_ad: the text, "" when the expected path is missing.
AdText(ad, display_format) ==
    IF display_format.k = "str" /\ display_format.v \in MultiCard
    THEN IF ad.cards = <<>> \/ ad.cards[1].body = JMissing
         THEN JStr("") ELSE ad.cards[1].body
    ELSE IF ad.body_text = JMissing THEN JStr("") ELSE ad.body_text

\* langdetect.detect: raises on a text without language features.
DetectRaises(text) == text.k # "str" \/ text.v \in UndetectableTexts
detect(text) == "en"

\* Line 114 of parse_ad: max(group_collation_count[0], collation_count or 0).
OrZero(j) == IF Truthy(j) THEN j.v ELSE 0
RunningMaxPerAd(count, collation_count) == OrZero(collation_count)
RunningMax(count, collation_count) ==
    IF count >= OrZero(collation_count) THEN count ELSE OrZero(collation_count)

\* The keys parse_ad reads with ad[...] before it touches the collation count.
RequiredBeforeCollation(ad) ==
    /\ ad.ad_archive_id # JMissing
    /\ ad.is_active # JMissing
    /\ ad.start_date # JMissing
    /\ ad.end_date # JMissing
    /\ ad.total_active_time # JMissing

\* max raises TypeError on a collation_count that is truthy and not a number.
CollationComparable(ad) == ad.collation_count.k \in {"missing", "null", "int"}

\* parse_ad(ad, group_collation_count): whether it raised, the running count it
\* leaves in group_collation_count[0], and the dict it returned.
parse_ad(ad, count) ==
    IF ~RequiredBeforeCollation(ad) \/ ~CollationComparable(ad)
    THEN [raised |-> TRUE, count |-> count, rec |-> None]
    ELSE
      LET collation_count == RunningMax(count, ad.collation_count)
          ad_text == AdText(ad, ad.display_format)
      IN  IF ad.display_format = JMissing
          THEN [raised |-> TRUE, count |-> collation_count, rec |-> None]
          ELSE IF Truthy(ad_text) /\ DetectRaises(ad_text)
          THEN [raised |-> TRUE, count |-> collation_count, rec |-> None]
          ELSE [raised |-> FALSE, count |-> collation_count,
                rec |-> [ad_id |-> ad.ad_archive_id,
                         is_active |-> ad.is_active,
                         start_date_ts |-> ad.start_date,
                         end_date_ts |-> ad.end_date,
                         total_active_time_sec |-> ad.total_active_time,
                         ad_group_id |-> IF ad.collation_id = JMissing
                                         THEN JNull ELSE ad.collation_id,
                         grouped_ads_count |-> JInt(collation_count),
                         display_format |-> ad.display_format,
                         media_mix |-> get_media_mix(ad, ad.display_format),
                         ad_text |-> ad_text,
                         ad_lang_code |-> IF Truthy(ad_text) THEN detect(ad_text)
                                          ELSE "undetected"]]

\* The loop of parse_ad_group: one step per ad, group_collation_count = [0] first.
RECURSIVE ParseSteps(_, _)
ParseSteps(ad_group, count) ==
    IF ad_group = <<>> THEN <<>>
    ELSE LET step == parse_ad(Head(ad_group), count)
         IN  <<step>> \o ParseSteps(Tail(ad_group), step.count)

parse_ad_group_steps(ad_group) == ParseSteps(ad_group, 0)

\* parse_ad_group: the dicts of the ads whose parse did not raise.
StepsParsed(steps) ==
    LET ok(s) == ~s.raised
        kept == SelectSeq(steps, ok)
    IN  [i \in 1..Len(kept) |-> kept[i].rec]

parse_ad_group(ad_group) == StepsParsed(parse_ad_group_steps(ad_group))

\* validate_unix_timestamp (mode="before"); every integer of the model is in
\* the range datetime.fromtimestamp accepts.
validate_unix_timestamp(v) == v.k \in {"null", "int"}

\* check_dates_order (mode="after"): TRUE when it raises.
check_dates_order(rec) ==
    /\ Truthy(rec.start_date_ts)
    /\ Truthy(rec.end_date_ts)
    /\ rec.end_date_ts.v < rec.start_date_ts.v

\* The field types of ValidatedAd.
FieldsValid(rec) ==
    /\ rec.ad_id.k = "str"
    /\ rec.is_active.k = "bool"
    /\ validate_unix_timestamp(rec.start_date_ts) /\ rec.start_date_ts.k = "int"
    /\ validate_unix_timestamp(rec.end_date_ts)
    /\ rec.total_active_time_sec.k \in {"null", "int"}
    /\ rec.ad_group_id.k \in {"null", "str"}
    /\ rec.grouped_ads_count.k \in {"null", "int"}
    /\ rec.display_format.k = "str" /\ rec.display_format.v \in DisplayFormat
    /\ rec.media_mix \in MediaMix
    /\ rec.ad_text.k = "str"

\* ValidatedAd(**ad): "ok" or the validation error.
ValidatedAd(rec) ==
    IF ~FieldsValid(rec) THEN "field error"
    ELSE IF check_dates_order(rec) THEN "end_date cannot be earlier than start_date"
    ELSE "ok"

validate_and_clean_data(ads) ==
    LET ok(r) == ValidatedAd(r) = "ok"
        bad(r) == ValidatedAd(r) # "ok"
        rejected == SelectSeq(ads, bad)
    IN  [valid |-> SelectSeq(ads, ok),
         invalid |-> [i \in 1..Len(rejected) |->
                        [record |-> rejected[i],
                         validation_error |-> ValidatedAd(rejected[i])]]]

\* DataFrame.drop_duplicates(subset=[key], keep=...): the rows kept, in order.
\* pandas compares missing values (None/NaN) as equal to each other.
KeptIndices(df, key, keep) ==
    { i \in 1..Len(df) :
        IF keep = "first"
        THEN \A j \in 1..(i - 1) : df[j][key] # df[i][key]
        ELSE \A j \in (i + 1)..Len(df) : df[j][key] # df[i][key] }

RECURSIVE Pick(_, _, _)
Pick(df, idx, i) ==
    IF i > Len(df) THEN <<>>
    ELSE (IF i \in idx THEN <<df[i]>> ELSE <<>>) \o Pick(df, idx, i + 1)

drop_duplicates_keep_last(df, key) == Pick(df, KeptIndices(df, key, "last"), 1)
drop_duplicates(df, key) == Pick(df, KeptIndices(df, key, "first"), 1)

-----------------------------------------------------------------------------
(* The pipeline: main -> collect_raw_data -> transform_raw_data -> generate_report *)

Init ==
    /\ pc = "start"
    /\ calls = 0
    /\ attempt = 0
    /\ attempts = <<>>
    /\ delays = 0
    /\ parsed_init_data = None
    /\ init_appends = 0
    /\ raw_ads_data = <<>>
    /\ captured = <<>>
    /\ responses = 0
    /\ scrolls = 0
    /\ raw_file = None
    /\ group_steps = <<>>
    /\ parsed_ads = <<>>
    /\ valid_records = <<>>
    /\ invalid_records = <<>>
    /\ df_cleaned_1 = <<>>
    /\ df_cleaned_2 = <<>>
    /\ df_cleaned_3 = <<>>

\* collect_raw_data is entered: by main, or again by a caller in the same process
\* once the previous call has returned.  The page and its handlers are set up and
\* find_init_data_with_retries starts its loop.
CollectStart ==
    /\ pc \in {"start", "collected"}
    /\ calls < MaxCalls
    /\ calls' = calls + 1
    /\ attempt' = 1
    /\ attempts' = <<>>
    /\ delays' = 0
    /\ parsed_init_data' = None
    /\ init_appends' = 0
    /\ scrolls' = 0
    /\ pc' = "goto"
    /\ UNCHANGED <<raw_ads_data, captured, responses, raw_file>>
    /\ UNCHANGED transformVars

\* An attempt of find_init_data_with_retries ended with an exception: the except
\* clause either continues the loop (after the delay) or returns None.
AttemptFailed(outcome) ==
    /\ parsed_init_data' = None
    /\ pc' = IF RetryAllowed(outcome, attempt) THEN "sleep" ELSE "returned"

\* page.goto(...): it times out, raises something else, or the page loads.
Navigate ==
    /\ pc = "goto"
    /\ \/ /\ attempts' = Append(attempts, "goto_timeout")
          /\ AttemptFailed("goto_timeout")
       \/ /\ attempts' = Append(attempts, "goto_error")
          /\ AttemptFailed("goto_error")
       \/ /\ attempts' = Append(attempts, "loaded")
          /\ pc' = "extract"
          /\ UNCHANGED parsed_init_data
    /\ UNCHANGED <<calls, attempt, delays, init_appends, raw_ads_data, captured,
                   responses, scrolls, raw_file>>
    /\ UNCHANGED transformVars

\* get_parsed_init_data(page) on the loaded page.
Extract ==
    /\ pc = "extract"
    /\ \E page \in PageContents :
         LET r == get_parsed_init_data(page)
         IN  /\ attempts' = [attempts EXCEPT ![Len(attempts)] = r.outcome]
             /\ IF r.outcome = "found"
                THEN /\ parsed_init_data' = r.data
                     /\ pc' = "returned"
                ELSE AttemptFailed(r.outcome)
    /\ UNCHANGED <<calls, attempt, delays, init_appends, raw_ads_data, captured,
                   responses, scrolls, raw_file>>
    /\ UNCHANGED transformVars

\* time.sleep(RETRY_DELAY_SECONDS); continue
RetryDelay ==
    /\ pc = "sleep"
    /\ delays' = delays + 1
    /\ attempt' = attempt + 1
    /\ pc' = "goto"
    /\ UNCHANGED <<calls, attempts, parsed_init_data, init_appends, raw_ads_data,
                   captured, responses, scrolls, raw_file>>
    /\ UNCHANGED transformVars

\* if parsed_init_data: raw_ads_data.extend(parsed_init_data); then the scroll loop
\* is entered.
AppendInit ==
    /\ pc = "returned"
    /\ IF parsed_init_data # None /\ parsed_init_data.v # <<>>
       THEN /\ raw_ads_data' = Extend(raw_ads_data, parsed_init_data.v)
            /\ init_appends' = init_appends + 1
       ELSE UNCHANGED <<raw_ads_data, init_appends>>
    /\ pc' = "scroll"
    /\ UNCHANGED <<calls, attempt, attempts, delays, parsed_init_data, captured,
                   responses, scrolls, raw_file>>
    /\ UNCHANGED transformVars

\* One iteration of scroll_until_loaded: the loader appears and detaches, or a
\* wait times out (break); the loop also ends after max_scrolls iterations.
ScrollStep ==
    /\ pc = "scroll"
    /\ \/ /\ scrolls < MaxScrolls
          /\ scrolls' = scrolls + 1
          /\ pc' = "scroll"
       \/ /\ scrolls < MaxScrolls
          /\ scrolls' = scrolls + 1
          /\ pc' = "write"
       \/ /\ scrolls = MaxScrolls
          /\ scrolls' = scrolls
          /\ pc' = "write"
    /\ UNCHANGED <<calls, attempt, attempts, delays, parsed_init_data, init_appends,
                   raw_ads_data, captured, responses, raw_file>>
    /\ UNCHANGED transformVars

\* json.dump(raw_ads_data, f); return raw_data_file_path
WriteRawFile ==
    /\ pc = "write"
    /\ raw_file' = JList(raw_ads_data)
    /\ pc' = "collected"
    /\ UNCHANGED collectVars
    /\ UNCHANGED transformVars

\* handle_response, called by the page session while the main flow waits inside a
\* page operation (goto, the script-tag queries, the scroll loop's waits).
HandleResponse ==
    /\ pc \in {"goto", "extract", "scroll"}
    /\ responses < MaxResponses
    /\ \E r \in Responses :
         /\ raw_ads_data' = Extend(raw_ads_data, ResponseGroups(r))
         /\ captured' = captured \o ResponseGroups(r)
    /\ responses' = responses + 1
    /\ UNCHANGED <<pc, calls, attempt, attempts, delays, parsed_init_data,
                   init_appends, scrolls, raw_file>>
    /\ UNCHANGED transformVars

\* transform_raw_data(raw_data_file_path)
TransformRawData ==
    /\ pc = "collected"
    /\ LET raw_ads == raw_file.v
           steps == [g \in 1..Len(raw_ads) |-> parse_ad_group_steps(raw_ads[g])]
           parsed == Flatten([g \in 1..Len(raw_ads) |-> parse_ad_group(raw_ads[g])])
           checked == validate_and_clean_data(parsed)
           df1 == drop_duplicates(checked.valid, "ad_id")
           df2 == drop_duplicates(df1, "ad_group_id")
           df3 == drop_duplicates(df2, "ad_text")
       IN  /\ group_steps' = steps
           /\ parsed_ads' = parsed
           /\ valid_records' = checked.valid
           /\ invalid_records' = checked.invalid
           /\ df_cleaned_1' = df1
           /\ df_cleaned_2' = df2
           /\ df_cleaned_3' = df3
    /\ pc' = "transformed"
    /\ UNCHANGED collectVars
    /\ UNCHANGED raw_file

\* The columns of the DataFrame read back from the parquet file: a DataFrame
\* built from no records has no columns.
Columns(df) ==
    IF df = <<>> THEN {}
    ELSE {"ad_id", "is_active", "start_date_ts", "end_date_ts",
          "total_active_time_sec", "ad_group_id", "grouped_ads_count",
          "display_format", "media_mix", "ad_text", "ad_lang_code"}

\* A column holding both integers and nulls is float64 with NaN for the nulls.
HasNaN(df, col) ==
    /\ \E i \in 1..Len(df) : df[i][col] = JNull
    /\ \E i \in 1..Len(df) : df[i][col] # JNull

\* generate_report raises: df["ad_id"] on a frame without that column (line 22),
\* datetime.fromtimestamp on a NaN end_date_ts (line 28).
ReportRaises(df) ==
    \/ "ad_id" \notin Columns(df)
    \/ HasNaN(df, "end_date_ts")

\* generate_report(transformed_data_file_path)
GenerateReport ==
    /\ pc = "transformed"
    /\ pc' = IF ReportRaises(df_cleaned_3) THEN "crashed" ELSE "reported"
    /\ UNCHANGED collectVars
    /\ UNCHANGED raw_file
    /\ UNCHANGED transformVars

Next ==
    \/ CollectStart
    \/ Navigate
    \/ Extract
    \/ RetryDelay
    \/ AppendInit
    \/ ScrollStep
    \/ WriteRawFile
    \/ HandleResponse
    \/ TransformRawData
    \/ GenerateReport

Spec == Init /\ [][Next]_vars

-----------------------------------------------------------------------------
(* transform_raw_data and generate_report on raw files drawn from families of  *)
(* raw ads, each family varying the fields one stage of the transform reads.   *)

SeqsUpTo(S, n) == UNION { [1..m -> S] : m \in 0..n }

\* Ads that differ in the three dedup keys.
DedupAds ==
    { [BaseAd EXCEPT !.ad_archive_id = JStr(i), !.collation_id = g,
                     !.body_text = JStr(t)] :
        i \in {"a1", "a2"}, g \in {JNull, JStr("g1")}, t \in {"buy now", "learn fast"} }

\* Ads that differ in collation_count and in where parse_ad raises, if it does:
\* before the collation step (no ad_archive_id), in it (a collation_count that
\* max cannot compare) or after it (undetectable text).
CountAds ==
    { [BaseAd EXCEPT !.collation_count = c] :
        c \in {JMissing, JNull, JInt(-1), JInt(1), JInt(2)} }
    \cup { [BaseAd EXCEPT !.collation_count = JInt(2), !.ad_archive_id = JMissing],
           [BaseAd EXCEPT !.collation_count = JStr("many")],
           [BaseAd EXCEPT !.collation_count = JInt(2), !.body_text = JStr("12345")] }

\* Ads that differ in their dates.
Timestamps == {JNull, JInt(-1), JInt(0), JInt(1), JInt(2)}
DateAds ==
    { [BaseAd EXCEPT !.start_date = b, !.end_date = e] :
        b \in Timestamps, e \in Timestamps }

\* Ads that differ in their identifier.
IdAds ==
    { [BaseAd EXCEPT !.ad_archive_id = i] :
        i \in {JStr("a1"), JStr(""), JNull, JInt(17), JMissing} }

\* Ads that differ in display format, text and cards.
Card(body, video, image) ==
    [body |-> body, video_hd_url |-> video, original_image_url |-> image]
CardLists ==
    { <<>>,
      <<Card(JStr("12345"), JNull, JStr("i.jpg"))>>,
      <<Card(JMissing, JStr("v.mp4"), JNull), Card(JStr("buy now"), JNull, JStr("i.jpg"))>> }
TextAds ==
    { [BaseAd EXCEPT !.display_format = JStr(f), !.body_text = t] :
        f \in {"IMAGE", "VIDEO"},
        t \in {JStr("buy now"), JStr("12345"), JStr(""), JMissing} }
    \cup { [BaseAd EXCEPT !.display_format = JStr(f), !.cards = c] :
             f \in {"IMAGE", "DCO", "CAROUSEL"}, c \in CardLists }
    \cup { [BaseAd EXCEPT !.display_format = f] : f \in {JStr("TEXT"), JMissing} }

\* Every ad in a group of its own.
Singletons(ads) == [i \in 1..Len(ads) |-> <<ads[i]>>]

Datasets ==
    { Singletons(ads) : ads \in SeqsUpTo(DedupAds, MaxDedupAds) }
    \cup { <<g>> : g \in SeqsUpTo(CountAds, MaxGroupAds) }
    \cup UNION { { <<SubSeq(g, 1, n), SubSeq(g, n + 1, Len(g))>> :
                      n \in 1..(Len(g) - 1) } :
                    g \in SeqsUpTo(CountAds, MaxGroupAds) }
    \cup { <<g>> : g \in SeqsUpTo(DateAds \cup IdAds \cup TextAds, MaxSingles) }

\* The state main is in once collect_raw_data has written the raw file.
InitTransform ==
    /\ pc = "collected"
    /\ calls = 1
    /\ attempt = 1
    /\ attempts = <<"found">>
    /\ delays = 0
    /\ parsed_init_data = None
    /\ init_appends = 0
    /\ raw_ads_data \in Datasets
    /\ captured = raw_ads_data
    /\ responses = 0
    /\ scrolls = 0
    /\ raw_file = JList(raw_ads_data)
    /\ group_steps = <<>>
    /\ parsed_ads = <<>>
    /\ valid_records = <<>>
    /\ invalid_records = <<>>
    /\ df_cleaned_1 = <<>>
    /\ df_cleaned_2 = <<>>
    /\ df_cleaned_3 = <<>>

NextTransform ==
    \/ TransformRawData
    \/ GenerateReport

SpecTransform == InitTransform /\ [][NextTransform]_vars

-----------------------------------------------------------------------------
(* Properties. *)

Range(s) == { s[i] : i \in 1..Len(s) }

ControllerReturned ==
    pc \in {"returned", "scroll", "write", "collected", "transformed", "reported",
            "crashed"}

ScrollEntered ==
    pc \in {"scroll", "write", "collected", "transformed", "reported", "crashed"}

FileWritten == pc \in {"collected", "transformed", "reported", "crashed"}

TransformDone == pc \in {"transformed", "reported", "crashed"}

RetriesExhausted ==
    /\ Len(attempts) = MAX_RETRIES
    /\ \A i \in 1..Len(attempts) : attempts[i] = "not_found"

\* C1: find_init_data_with_retries makes at most MAX_RETRIES (5) navigation
\* attempts; every attempt that is followed by another one ended with
\* marker-not-found, was not the 5th, and is separated from the next by exactly
\* one delay, so a navigation timeout or any other exception is always the last
\* attempt; and after 5 marker-not-found attempts the controller returns None.
C1_RetryController ==
    /\ Len(attempts) <= MAX_RETRIES
    /\ \A i \in 1..(Len(attempts) - 1) : attempts[i] = "not_found"
    /\ pc = "goto" => delays = Len(attempts) /\ attempt = Len(attempts) + 1
    /\ pc \in {"extract", "sleep"} \/ ControllerReturned =>
          delays = Len(attempts) - 1 /\ attempt = Len(attempts)
    /\ pc = "sleep" => Last(attempts) = "not_found" /\ Len(attempts) < MAX_RETRIES
    /\ ControllerReturned /\ Last(attempts) # "found" => parsed_init_data = None
    /\ ControllerReturned /\ RetriesExhausted => parsed_init_data = None

\* The controller has returned after five marker-not-found attempts and four delays.
C1_Witness ==
    /\ pc = "returned"
    /\ RetriesExhausted
    /\ delays = MAX_RETRIES - 1
    /\ parsed_init_data = None

\* C2: once page.goto has timed out, the scroll loop is not executed and neither
\* transform_raw_data nor generate_report is invoked for that run.
C2_NavTimeoutAbortsRun ==
    (attempts # <<>> /\ Last(attempts) = "goto_timeout") => ~ScrollEntered

\* C3: in main's run, when the marker was not found 5 times in a row, the raw file
\* holds exactly the groups the Response Interceptor captured, and when that file
\* is empty no stage of the run raises.
C3_ExhaustedRunCompletes ==
    (calls = 1 /\ RetriesExhausted) =>
        /\ FileWritten => raw_file = JList(captured)
        /\ raw_file = JList(<<>>) => pc # "crashed"

\* A stage of drop_duplicates: output Y of input X keeps exactly the first row
\* of every key, in order.
KeepsFirstOfEveryKey(X, Y, key) ==
    /\ Len(Y) <= Len(X)
    /\ \A i \in 1..Len(X) :
          (\A j \in 1..(i - 1) : X[j][key] # X[i][key]) => X[i] \in Range(Y)
    /\ \A k \in 1..Len(Y) :
          \E i \in 1..Len(X) :
             /\ Y[k] = X[i]
             /\ \A j \in 1..(i - 1) : X[j][key] # X[i][key]
    /\ \A k \in 1..Len(Y) : \A l \in (k + 1)..Len(Y) : Y[k][key] # Y[l][key]

\* C4: each of the three dedup stages keeps the first-encountered record of every
\* key of its input (the previous stage's output, so a record dropped earlier is
\* not considered later) and never increases the record count; the final output
\* has no two records sharing an ad_id, no two non-null-group records sharing an
\* ad_group_id and no two records sharing an ad_text.
C4_DedupFunnel ==
    TransformDone =>
        /\ KeepsFirstOfEveryKey(valid_records, df_cleaned_1, "ad_id")
        /\ KeepsFirstOfEveryKey(df_cleaned_1, df_cleaned_2, "ad_group_id")
        /\ KeepsFirstOfEveryKey(df_cleaned_2, df_cleaned_3, "ad_text")
        /\ \A i \in 1..Len(df_cleaned_3) : \A j \in (i + 1)..Len(df_cleaned_3) :
              /\ df_cleaned_3[i].ad_id # df_cleaned_3[j].ad_id
              /\ df_cleaned_3[i].ad_text # df_cleaned_3[j].ad_text
              /\ df_cleaned_3[i].ad_group_id # JNull =>
                    df_cleaned_3[i].ad_group_id # df_cleaned_3[j].ad_group_id

\* A record dropped by the ad_id stage shares its non-null group with a later
\* record of another ad_id, which survives the ad_group_id stage; the ad_text
\* stage drops a record too.
C4_Witness ==
    /\ TransformDone
    /\ Len(df_cleaned_3) < Len(df_cleaned_2)
    /\ \E i \in 1..Len(valid_records) : \E m \in (i + 1)..Len(valid_records) :
          /\ \E j \in 1..(i - 1) : valid_records[j].ad_id = valid_records[i].ad_id
          /\ valid_records[i].ad_group_id # JNull
          /\ valid_records[m].ad_group_id = valid_records[i].ad_group_id
          /\ valid_records[m].ad_id # valid_records[i].ad_id
          /\ valid_records[m] \in Range(df_cleaned_2)

\* C5: every record with a null ad_group_id that survived the ad_id stage also
\* survives the ad_group_id stage.
C5_NullGroupNeverCollapsed ==
    TransformDone =>
        \A i \in 1..Len(df_cleaned_1) :
            df_cleaned_1[i].ad_group_id = JNull => df_cleaned_1[i] \in Range(df_cleaned_2)

\* The grouped_ads_count of the records a group emitted, in processing order.
EmittedCounts(steps) ==
    LET recs == StepsParsed(steps)
    IN  [i \in 1..Len(recs) |-> recs[i].grouped_ads_count.v]

NonDecreasing(s) == \A i \in 1..Len(s) : \A j \in i..Len(s) : s[i] <= s[j]

\* A collation_count as a number: null, missing or non-numeric counting as 0.
CountValue(j) == IF j.k = "int" THEN j.v ELSE 0

\* The ads of a group, up to position i, whose parse completed the collation step.
ReachedCollation(ad_group, i) ==
    { j \in 1..i : RequiredBeforeCollation(ad_group[j]) /\ CollationComparable(ad_group[j]) }

\* C6 (as amended): within one raw ad group the grouped_ads_count values of the
\* emitted records are non-decreasing in processing order, and each equals the
\* largest of 0 and the collation_count values (null or missing counting as 0) of
\* those ads of the same group, up to and including the record's position, whose
\* parse completed the collation step; the running maximum starts afresh per group.
C6_GroupedCountRunningMax ==
    TransformDone =>
        /\ Len(group_steps) = Len(raw_file.v)
        /\ \A g \in 1..Len(raw_file.v) :
              LET ad_group == raw_file.v[g]
                  steps == group_steps[g]
              IN  /\ Len(steps) = Len(ad_group)
                  /\ NonDecreasing(EmittedCounts(steps))
                  /\ \A i \in 1..Len(steps) :
                        ~steps[i].raised =>
                            steps[i].rec.grouped_ads_count.v =
                                SetMax({0} \cup { CountValue(ad_group[j].collation_count) :
                                                    j \in ReachedCollation(ad_group, i) })
        /\ parsed_ads = Flatten([g \in 1..Len(group_steps) |-> StepsParsed(group_steps[g])])

\* C6 as stated: each emitted record's grouped_ads_count equals the maximum
\* collation_count (null or missing counting as 0) among all the group's ads up
\* to and including its position, skipped ads included.
C6_AsStated ==
    TransformDone =>
        \A g \in 1..Len(raw_file.v) :
            /\ NonDecreasing(EmittedCounts(group_steps[g]))
            /\ \A i \in 1..Len(group_steps[g]) :
                  ~group_steps[g][i].raised =>
                      group_steps[g][i].rec.grouped_ads_count.v =
                          SetMax({ CountValue(raw_file.v[g][j].collation_count) : j \in 1..i })

\* Two groups: the first emits a record with count 2; in the second an ad with
\* collation_count 2 is skipped before the collation step and the next record
\* gets a smaller count.
C6_Witness ==
    /\ TransformDone
    /\ Len(raw_file.v) = 2
    /\ \E i \in 1..Len(group_steps[1]) :
          ~group_steps[1][i].raised /\ group_steps[1][i].rec.grouped_ads_count.v = 2
    /\ \E i \in 1..Len(group_steps[2]) : \E j \in (i + 1)..Len(group_steps[2]) :
          /\ group_steps[2][i].raised
          /\ i \notin ReachedCollation(raw_file.v[2], i)
          /\ raw_file.v[2][i].collation_count = JInt(2)
          /\ ~group_steps[2][j].raised
          /\ group_steps[2][j].rec.grouped_ads_count.v = 1

BothDatesPresent(rec) == rec.start_date_ts.k = "int" /\ rec.end_date_ts.k = "int"

\* C7: every valid record, and every persisted record, with both dates present
\* has end_date_ts >= start_date_ts, and every candidate with both dates present
\* and end_date_ts < start_date_ts is in the invalid-records report with the
\* date-order reason.
C7_DatesOrdered ==
    TransformDone =>
        /\ \A r \in Range(valid_records) \cup Range(df_cleaned_3) :
              BothDatesPresent(r) => r.end_date_ts.v >= r.start_date_ts.v
        /\ \A r \in Range(parsed_ads) :
              (FieldsValid(r) /\ BothDatesPresent(r)
                 /\ r.end_date_ts.v < r.start_date_ts.v) =>
                  [record |-> r,
                   validation_error |-> "end_date cannot be earlier than start_date"]
                      \in Range(invalid_records)

\* C8: every valid record's ad_id is a non-empty string, and a candidate whose
\* ad_id is not a non-empty string is in the invalid-records report.
C8_AdIdNonEmpty ==
    TransformDone =>
        /\ \A r \in Range(valid_records) : r.ad_id.k = "str" /\ r.ad_id.v # ""
        /\ \A r \in Range(parsed_ads) :
              ~(r.ad_id.k = "str" /\ r.ad_id.v # "") =>
                  \E x \in Range(invalid_records) : x.record = r

\* C9: an ad whose other fields are derivable and whose ad_text is empty, or is
\* non-empty and makes the language detector raise, is emitted by the Normalizer
\* with ad_lang_code "undetected".
C9_DetectionFailureUndetected ==
    TransformDone =>
        \A g \in 1..Len(raw_file.v) : \A i \in 1..Len(raw_file.v[g]) :
            LET ad == raw_file.v[g][i]
                text == AdText(ad, ad.display_format)
            IN  (/\ RequiredBeforeCollation(ad)
                 /\ CollationComparable(ad)
                 /\ ad.display_format # JMissing
                 /\ text.k = "str"
                 /\ text.v = "" \/ DetectRaises(text)) =>
                    /\ ~group_steps[g][i].raised
                    /\ group_steps[g][i].rec.ad_lang_code = "undetected"

\* C10: raw_ads_data only grows at its end (no group is removed, replaced or
\* reordered, also across navigation retries and collect_raw_data calls); the
\* initial-render groups are appended at most once per call and only after the
\* retry controller has returned; and the raw file written holds the whole
\* accumulator as it is at the end of the scroll loop.
C10_AppendOnlyAccumulator ==
    /\ [][IsPrefix(raw_ads_data, raw_ads_data')]_vars
    /\ [][calls' = calls /\ pc # "returned" => init_appends' = init_appends]_vars
    /\ [](init_appends <= 1)
    /\ [](init_appends = 1 => ScrollEntered)
    /\ [][pc = "write" => raw_ads_data' = raw_ads_data]_vars
    /\ [](FileWritten => raw_file = JList(raw_ads_data))

\* The second call in a process has written a file that still starts with what
\* the first call accumulated, after appending its own initial-render groups.
C10_Witness ==
    /\ calls = 2
    /\ pc = "collected"
    /\ init_appends = 1
    /\ Len(captured) >= 1
    /\ Len(raw_ads_data) >= 3
    /\ raw_file = JList(raw_ads_data)

=============================================================================
